---- MODULE Spec2Model ----
(***************************************************************************)
(* Model of ConsciousnessThresholds (src/ConsciousnessThresholds.py): a    *)
(* holder of three scalar metrics and a domain -> stabilization dict, with *)
(* update_metrics (replace scalars, merge dict) and is_conscious (ordered  *)
(* short-circuit threshold checks against a policy).                       *)
(*                                                                         *)
(* Numbers are held in hundredths (0.85 is 85), tagged with their Python   *)
(* type, so that an ordering comparison between a number and a value that  *)
(* Python cannot order against a number raises TypeError as it does in the *)
(* interpreter.                                                            *)
(***************************************************************************)
EXTENDS Integers, Sequences, FiniteSets, TLC

VARIABLES
    global_delta_c,            \* self.global_delta_c
    recursive_modeling_score,  \* self.recursive_modeling_score
    memory_integrity_score,    \* self.memory_integrity_score
    domain_stabilization,      \* self.domain_stabilization (dict)
    op,                        \* the most recent call: "__init__", "update_metrics", "is_conscious"
    args,                      \* the arguments of the most recent call
    outcome,                   \* what it gave: "None", "True", "False" or "TypeError"
    last_mentioned,            \* history: domain -> value of the latest update naming it
    last_scalars,              \* history: the scalar arguments of the latest update, <<>> before it
    prior_verdict              \* history: what a default is_conscious() gave right before the latest update

vars == <<global_delta_c, recursive_modeling_score, memory_integrity_score,
          domain_stabilization, op, args, outcome, last_mentioned, last_scalars,
          prior_verdict>>

----------------------------------------------------------------------------
(* Python values *)

Float(n) == [type |-> "float", v |-> n]

PyInt(n) == [type |-> "int", v |-> n]

NonNumeric == [type |-> "str", v |-> 0]

IsNumber(x) == x.type \in {"float", "int"}

\* a >= b, the bound itself rejected
PyGt_or_equal(a, b) ==
    IF IsNumber(a) /\ IsNumber(b)
    THEN IF a.v >= b.v THEN "True" ELSE "False"
    ELSE "TypeError"

\* a > b
PyGt(a, b) ==
    IF IsNumber(a) /\ IsNumber(b)
    THEN IF a.v > b.v THEN "True" ELSE "False"
    ELSE "TypeError"

\* a < b where values of different types are ordered instead of rejected, a
\* number below anything else
PyLt_ordering_all_types(a, b) ==
    IF IsNumber(a) /\ IsNumber(b)
    THEN IF a.v < b.v THEN "True" ELSE "False"
    ELSE IF IsNumber(a) /\ ~IsNumber(b) THEN "True" ELSE "False"

\* a < b
PyLt(a, b) ==
    IF IsNumber(a) /\ IsNumber(b)
    THEN IF a.v < b.v THEN "True" ELSE "False"
    ELSE "TypeError"

\* d.get(key, default)
DictGet(d, key, default) == IF key \in DOMAIN d THEN d[key] ELSE default

EmptyDict == [k \in {} |-> Float(0)]

----------------------------------------------------------------------------
(* The object *)

Self == [global_delta_c |-> global_delta_c,
         recursive_modeling_score |-> recursive_modeling_score,
         memory_integrity_score |-> memory_integrity_score,
         domain_stabilization |-> domain_stabilization]

\* __init__ starting at full coherence
NewSelf_coherent == [global_delta_c |-> Float(0),
                     recursive_modeling_score |-> Float(0),
                     memory_integrity_score |-> Float(0),
                     domain_stabilization |-> EmptyDict]

\* __init__
NewSelf == [global_delta_c |-> Float(100),
            recursive_modeling_score |-> Float(0),
            memory_integrity_score |-> Float(0),
            domain_stabilization |-> EmptyDict]

\* for domain, pct in domain_updates.items(): d[domain] = pct
RECURSIVE AssignItems(_, _, _)
AssignItems(d, domain_updates, todo) ==
    IF todo = {} THEN d
    ELSE LET domain == CHOOSE k \in todo : TRUE
             pct == domain_updates[domain]
             d2 == [k \in DOMAIN d \cup {domain} |-> IF k = domain THEN pct ELSE d[k]]
         IN AssignItems(d2, domain_updates, todo \ {domain})

\* self.domain_stabilization = domain_updates
update_metrics_replacing(self, delta_c, recursive_score, memory_score, domain_updates) ==
    [global_delta_c |-> delta_c,
     recursive_modeling_score |-> recursive_score,
     memory_integrity_score |-> memory_score,
     domain_stabilization |-> domain_updates]

\* delta_c clamped into [0, 1]
update_metrics_clamping(self, delta_c, recursive_score, memory_score, domain_updates) ==
    [global_delta_c |->
         IF ~IsNumber(delta_c) THEN delta_c
         ELSE IF delta_c.v > 100 THEN Float(100)
         ELSE IF delta_c.v < 0 THEN Float(0) ELSE delta_c,
     recursive_modeling_score |-> recursive_score,
     memory_integrity_score |-> memory_score,
     domain_stabilization |->
         AssignItems(self.domain_stabilization, domain_updates, DOMAIN domain_updates)]

update_metrics(self, delta_c, recursive_score, memory_score, domain_updates) ==
    [global_delta_c |-> delta_c,
     recursive_modeling_score |-> recursive_score,
     memory_integrity_score |-> memory_score,
     domain_stabilization |->
         AssignItems(self.domain_stabilization, domain_updates, DOMAIN domain_updates)]

\* the literal built when thresholds is None
DefaultThresholds ==
    [delta_c |-> Float(10),
     recursive_modeling |-> Float(80),
     memory_integrity |-> Float(85),
     min_domain_stabilization |-> Float(70),
     required_domains |-> <<"time", "biology", "mind", "learning">>]

\* the loop returning True as soon as one domain passes
CheckDomains_first_only(self, thresholds, i) ==
    IF i > Len(thresholds.required_domains) THEN "True"
    ELSE LET domain == thresholds.required_domains[i]
             c == PyLt(DictGet(self.domain_stabilization, domain, PyInt(0)),
                       thresholds.min_domain_stabilization)
         IN IF c = "TypeError" THEN "TypeError"
            ELSE IF c = "True" THEN "False"
            ELSE "True"

\* the loop checking only the domains that are stored
RECURSIVE CheckDomains_skipping_absent(_, _, _)
CheckDomains_skipping_absent(self, thresholds, i) ==
    IF i > Len(thresholds.required_domains) THEN "True"
    ELSE LET domain == thresholds.required_domains[i]
             c == IF domain \in DOMAIN self.domain_stabilization
                  THEN PyLt(self.domain_stabilization[domain],
                            thresholds.min_domain_stabilization)
                  ELSE "False"
         IN IF c = "TypeError" THEN "TypeError"
            ELSE IF c = "True" THEN "False"
            ELSE CheckDomains_skipping_absent(self, thresholds, i + 1)

\* for domain in thresholds["required_domains"]: ... return False; return True
RECURSIVE CheckDomains(_, _, _)
CheckDomains(self, thresholds, i) ==
    IF i > Len(thresholds.required_domains) THEN "True"
    ELSE LET domain == thresholds.required_domains[i]
             c == PyLt(DictGet(self.domain_stabilization, domain, PyInt(0)),
                       thresholds.min_domain_stabilization)
         IN IF c = "TypeError" THEN "TypeError"
            ELSE IF c = "True" THEN "False"
            ELSE CheckDomains(self, thresholds, i + 1)

\* the memory_integrity check left out
is_conscious_without_memory(self, thresholds) ==
    LET t == IF thresholds = <<>> THEN DefaultThresholds ELSE thresholds[1]
        c1 == PyGt(self.global_delta_c, t.delta_c)
        c2 == PyLt(self.recursive_modeling_score, t.recursive_modeling)
        ret == IF c1 # "False" THEN (IF c1 = "True" THEN "False" ELSE c1)
               ELSE IF c2 # "False" THEN (IF c2 = "True" THEN "False" ELSE c2)
               ELSE CheckDomains(self, t, 1)
    IN [ret |-> ret, self |-> self]

\* an empty required_domains taken as not given: the default list is used
is_conscious_empty_as_default(self, thresholds) ==
    LET t0 == IF thresholds = <<>> THEN DefaultThresholds ELSE thresholds[1]
        t == IF t0.required_domains = <<>>
             THEN [t0 EXCEPT !.required_domains = DefaultThresholds.required_domains]
             ELSE t0
        c1 == PyGt(self.global_delta_c, t.delta_c)
        c2 == PyLt(self.recursive_modeling_score, t.recursive_modeling)
        c3 == PyLt(self.memory_integrity_score, t.memory_integrity)
        ret == IF c1 # "False" THEN (IF c1 = "True" THEN "False" ELSE c1)
               ELSE IF c2 # "False" THEN (IF c2 = "True" THEN "False" ELSE c2)
               ELSE IF c3 # "False" THEN (IF c3 = "True" THEN "False" ELSE c3)
               ELSE CheckDomains(self, t, 1)
    IN [ret |-> ret, self |-> self]

\* self.domain_stabilization.setdefault(domain, 0) for the first required domain
is_conscious_setdefault(self, thresholds) ==
    LET t == IF thresholds = <<>> THEN DefaultThresholds ELSE thresholds[1]
        c1 == PyGt(self.global_delta_c, t.delta_c)
        c2 == PyLt(self.recursive_modeling_score, t.recursive_modeling)
        c3 == PyLt(self.memory_integrity_score, t.memory_integrity)
        scalars == IF c1 # "False" THEN (IF c1 = "True" THEN "False" ELSE c1)
                   ELSE IF c2 # "False" THEN (IF c2 = "True" THEN "False" ELSE c2)
                   ELSE IF c3 # "False" THEN (IF c3 = "True" THEN "False" ELSE c3)
                   ELSE "True"
        d == self.domain_stabilization
        touched == IF scalars = "True" /\ t.required_domains # <<>>
                   THEN {t.required_domains[1]} ELSE {}
        d2 == [k \in DOMAIN d \cup touched |-> IF k \in DOMAIN d THEN d[k] ELSE PyInt(0)]
    IN [ret |-> IF scalars = "True" THEN CheckDomains(self, t, 1) ELSE scalars,
        self |-> [self EXCEPT !.domain_stabilization = d2]]

\* thresholds is <<>> for None, <<t>> for a dict t; gives the return value (or
\* the exception raised) and the object after the call
is_conscious(self, thresholds) ==
    LET t == IF thresholds = <<>> THEN DefaultThresholds ELSE thresholds[1]
        c1 == PyGt(self.global_delta_c, t.delta_c)
        c2 == PyLt(self.recursive_modeling_score, t.recursive_modeling)
        c3 == PyLt(self.memory_integrity_score, t.memory_integrity)
        ret == IF c1 # "False" THEN (IF c1 = "True" THEN "False" ELSE c1)
               ELSE IF c2 # "False" THEN (IF c2 = "True" THEN "False" ELSE c2)
               ELSE IF c3 # "False" THEN (IF c3 = "True" THEN "False" ELSE c3)
               ELSE CheckDomains(self, t, 1)
    IN [ret |-> ret, self |-> self]

----------------------------------------------------------------------------
(* Inputs *)

Domains == {"time", "biology", "mind", "learning"}

\* the largest number of keys of an arbitrary domain_updates mapping
MaxUpdateKeys == 1

\* update(0.05, 0.9, 0.9, ...) of the example, the default bounds met exactly,
\* and each scalar in turn outside its default bound (too large, below, negative)
ScalarInputs ==
    {<<Float(5), Float(90), Float(90)>>,
     <<Float(10), Float(80), Float(85)>>,
     <<Float(150), Float(80), Float(85)>>,
     <<Float(10), Float(79), Float(85)>>,
     <<Float(10), Float(80), Float(-5)>>}

PctInputs == {Float(69), Float(70)}

ExampleUpdates ==
    [d \in Domains |-> CASE d = "time" -> Float(80)
                         [] d = "biology" -> Float(75)
                         [] d = "mind" -> Float(71)
                         [] d = "learning" -> Float(99)]

Mappings(pcts) ==
    UNION {[K -> pcts] : K \in {K \in SUBSET Domains : Cardinality(K) <= MaxUpdateKeys}}

DomainUpdateInputs == Mappings(PctInputs) \cup {ExampleUpdates}

RequiredInputs ==
    {<<>>, <<"mind">>, <<"time", "mind">>, <<"mind", "time", "mind">>}

CustomThresholds ==
    {[delta_c |-> s[1], recursive_modeling |-> s[2], memory_integrity |-> s[3],
      min_domain_stabilization |-> m, required_domains |-> r] :
        s \in {<<Float(10), Float(80), Float(85)>>, <<Float(5), Float(90), Float(90)>>},
        m \in {PyInt(0), Float(70)},
        r \in RequiredInputs}

ThresholdInputs == {<<>>} \cup {<<t>> : t \in CustomThresholds}

\* values Python cannot order against a number, where the scalar checks are
\* reached in turn
ScalarInputsAny ==
    {<<Float(5), Float(90), Float(90)>>,
     <<NonNumeric, Float(90), Float(90)>>,
     <<Float(5), NonNumeric, Float(90)>>,
     <<Float(5), Float(90), NonNumeric>>,
     <<Float(150), NonNumeric, Float(90)>>}

DomainUpdateInputsAny == Mappings({NonNumeric, Float(69)}) \cup {ExampleUpdates}

ThresholdInputsAny ==
    {<<>>} \cup {<<t>> : t \in {c \in CustomThresholds :
                                  /\ c.delta_c = Float(10)
                                  /\ c.min_domain_stabilization = Float(70)}}

----------------------------------------------------------------------------
(* Behaviour *)

Init ==
    /\ global_delta_c = NewSelf.global_delta_c
    /\ recursive_modeling_score = NewSelf.recursive_modeling_score
    /\ memory_integrity_score = NewSelf.memory_integrity_score
    /\ domain_stabilization = NewSelf.domain_stabilization
    /\ op = "__init__"
    /\ args = <<>>
    /\ outcome = "None"
    /\ last_mentioned = EmptyDict
    /\ last_scalars = <<>>
    /\ prior_verdict = "None"

SetSelf(s) ==
    /\ global_delta_c' = s.global_delta_c
    /\ recursive_modeling_score' = s.recursive_modeling_score
    /\ memory_integrity_score' = s.memory_integrity_score
    /\ domain_stabilization' = s.domain_stabilization

UpdateMetrics(delta_c, recursive_score, memory_score, domain_updates) ==
    /\ SetSelf(update_metrics(Self, delta_c, recursive_score, memory_score, domain_updates))
    /\ op' = "update_metrics"
    /\ args' = <<delta_c, recursive_score, memory_score, domain_updates>>
    /\ outcome' = "None"
    /\ last_mentioned' =
           [d \in DOMAIN last_mentioned \cup DOMAIN domain_updates |->
               IF d \in DOMAIN domain_updates THEN domain_updates[d] ELSE last_mentioned[d]]
    /\ last_scalars' = <<delta_c, recursive_score, memory_score>>
    /\ prior_verdict' = IF op = "is_conscious" /\ args = <<<<>>>> THEN outcome ELSE "None"

IsConscious(thresholds) ==
    LET r == is_conscious(Self, thresholds)
    IN /\ SetSelf(r.self)
       /\ op' = "is_conscious"
       /\ args' = <<thresholds>>
       /\ outcome' = r.ret
       /\ UNCHANGED <<last_mentioned, last_scalars, prior_verdict>>

Update ==
    \E s \in ScalarInputs, domain_updates \in DomainUpdateInputs :
        UpdateMetrics(s[1], s[2], s[3], domain_updates)

Evaluate == \E thresholds \in ThresholdInputs : IsConscious(thresholds)

Next == Update \/ Evaluate

Spec == Init /\ [][Next]_vars

\* the same calls, with metric values of any type
UpdateAny ==
    \E s \in ScalarInputsAny, domain_updates \in DomainUpdateInputsAny :
        UpdateMetrics(s[1], s[2], s[3], domain_updates)

EvaluateAny == \E thresholds \in ThresholdInputsAny : IsConscious(thresholds)

NextAny == UpdateAny \/ EvaluateAny

SpecAny == Init /\ [][NextAny]_vars

----------------------------------------------------------------------------
(* Properties *)

\* the policy an is_conscious call works with
PolicyOf(thresholds) == IF thresholds = <<>> THEN DefaultThresholds ELSE thresholds[1]

DefaultCall == op = "is_conscious" /\ args = << <<>> >>

\* the stored stabilization of a domain, 0 when it has none
StoredOrZero(d) == IF d \in DOMAIN domain_stabilization THEN domain_stabilization[d].v ELSE 0

CoherencePasses(t) == global_delta_c.v <= t.delta_c.v
ModelingPasses(t) == recursive_modeling_score.v >= t.recursive_modeling.v
MemoryPasses(t) == memory_integrity_score.v >= t.memory_integrity.v
DomainsPass(t) ==
    \A i \in DOMAIN t.required_domains :
        StoredOrZero(t.required_domains[i]) >= t.min_domain_stabilization.v

AbsentRequired(t) ==
    {i \in DOMAIN t.required_domains : t.required_domains[i] \notin DOMAIN domain_stabilization}

\* C1: an is_conscious call returns True exactly when the coherence, modeling,
\* memory and required-domain conditions of its policy all hold of the stored
\* snapshot, and returns False otherwise.
C1_VerdictIffAllPass ==
    op = "is_conscious" =>
        LET t == PolicyOf(args[1])
        IN outcome = IF CoherencePasses(t) /\ ModelingPasses(t) /\ MemoryPasses(t)
                        /\ DomainsPass(t)
                     THEN "True" ELSE "False"

\* a custom policy with a repeated required domain, out of the default order, passes
C1_Witness ==
    /\ op = "is_conscious"
    /\ args # << <<>> >>
    /\ args[1][1].required_domains = <<"mind", "time", "mind">>
    /\ args[1][1].min_domain_stabilization.v = 70
    /\ outcome = "True"

\* C2: when the latest update_metrics call gave incoherence <= 0.1, modeling >=
\* 0.8 and memory >= 0.85, and time, biology, mind and learning are all stored
\* with stabilization >= 0.7, is_conscious() with the default policy returns True.
C2_DefaultPasses ==
    (/\ DefaultCall
     /\ last_scalars # <<>>
     /\ last_scalars[1].v <= 10
     /\ last_scalars[2].v >= 80
     /\ last_scalars[3].v >= 85
     /\ \A d \in Domains :
            d \in DOMAIN domain_stabilization /\ domain_stabilization[d].v >= 70)
    => outcome = "True"

\* update(0.05, 0.9, 0.9, {time:0.8, biology:0.75, mind:0.71, learning:0.99}); evaluate()
C2_Witness ==
    /\ DefaultCall
    /\ last_scalars = <<Float(5), Float(90), Float(90)>>
    /\ domain_stabilization = ExampleUpdates
    /\ outcome = "True"

\* how many of the four default conditions the stored snapshot violates
DefaultViolations ==
    Cardinality({c \in {"coherence", "modeling", "memory", "domains"} :
        CASE c = "coherence" -> ~CoherencePasses(DefaultThresholds)
          [] c = "modeling" -> ~ModelingPasses(DefaultThresholds)
          [] c = "memory" -> ~MemoryPasses(DefaultThresholds)
          [] c = "domains" -> ~DomainsPass(DefaultThresholds)})

\* C3: after is_conscious() returned True, an update_metrics call that leaves
\* exactly one of the four default conditions violated makes is_conscious()
\* return False.
C3_EachConditionNecessary ==
    (DefaultCall /\ prior_verdict = "True" /\ DefaultViolations = 1) => outcome = "False"

\* the example with mind changed from 0.71 to 0.69
C3_Witness ==
    /\ DefaultCall
    /\ prior_verdict = "True"
    /\ domain_stabilization = [ExampleUpdates EXCEPT !["mind"] = Float(69)]
    /\ CoherencePasses(DefaultThresholds)
    /\ ModelingPasses(DefaultThresholds)
    /\ MemoryPasses(DefaultThresholds)
    /\ outcome = "False"

\* C4 as stated: whatever the policy, a required domain that was never stored
\* makes is_conscious return False.
C4_AbsentDomainAlwaysFails ==
    (op = "is_conscious" /\ AbsentRequired(PolicyOf(args[1])) # {}) => outcome = "False"

\* C4: a required domain that was never stored counts as stabilization 0 and
\* makes is_conscious return False, without an error, provided the policy's
\* min_domain_stabilization is above 0.
C4_AbsentDomainFails ==
    (/\ op = "is_conscious"
     /\ AbsentRequired(PolicyOf(args[1])) # {}
     /\ PolicyOf(args[1]).min_domain_stabilization.v > 0)
    => outcome = "False"

\* only the absent domain stands in the way: the scalars and the stored
\* required domains pass
C4_Witness ==
    /\ op = "is_conscious"
    /\ LET t == PolicyOf(args[1])
       IN /\ AbsentRequired(t) # {}
          /\ t.min_domain_stabilization.v > 0
          /\ CoherencePasses(t) /\ ModelingPasses(t) /\ MemoryPasses(t)
          /\ \E i \in DOMAIN t.required_domains :
                 t.required_domains[i] \in DOMAIN domain_stabilization
          /\ \A i \in DOMAIN t.required_domains \ AbsentRequired(t) :
                 StoredOrZero(t.required_domains[i]) >= t.min_domain_stabilization.v
    /\ outcome = "False"

\* C5: an update_metrics call keeps every stored domain it does not name, with
\* its value, and stores every domain it names with the value given; so each
\* stored value is the one of the latest update that named the domain.
C5_UpdateMerges ==
    [][op' = "update_metrics" =>
        LET domain_updates == args'[4]
        IN /\ \A d \in DOMAIN domain_stabilization \ DOMAIN domain_updates :
                  d \in DOMAIN domain_stabilization'
                  /\ domain_stabilization'[d] = domain_stabilization[d]
           /\ \A d \in DOMAIN domain_updates :
                  d \in DOMAIN domain_stabilization'
                  /\ domain_stabilization'[d] = domain_updates[d]
           /\ DOMAIN domain_stabilization' =
                  DOMAIN domain_stabilization \cup DOMAIN domain_updates
           /\ domain_stabilization' = last_mentioned']_vars

\* a partial update has left an earlier entry in place
C5_Witness ==
    /\ op = "update_metrics"
    /\ DOMAIN args[4] # {}
    /\ DOMAIN domain_stabilization \ DOMAIN args[4] # {}
    /\ \E d \in DOMAIN args[4] : domain_stabilization[d] = Float(69)
    /\ \E d \in DOMAIN domain_stabilization \ DOMAIN args[4] :
           domain_stabilization[d] # Float(69)

\* C6: an is_conscious call, with any policy, leaves the three scalars and the
\* domain mapping as they were; after it is_conscious() with the default policy
\* returns what it would have returned before it, and the policy of the call
\* before it still gets the verdict that call returned.
C6_EvaluationIsPure ==
    [][op' = "is_conscious" =>
        /\ global_delta_c' = global_delta_c
        /\ recursive_modeling_score' = recursive_modeling_score
        /\ memory_integrity_score' = memory_integrity_score
        /\ domain_stabilization' = domain_stabilization
        /\ is_conscious(Self', <<>>).ret = is_conscious(Self, <<>>).ret
        /\ op = "is_conscious" => is_conscious(Self', args[1]).ret = outcome]_vars

\* after an update, a call with a custom policy that names a domain never
\* stored has returned True: the lookup of that domain left the mapping alone
C6_Witness ==
    /\ op = "is_conscious"
    /\ args # << <<>> >>
    /\ AbsentRequired(PolicyOf(args[1])) # {}
    /\ outcome = "True"
    /\ last_scalars # <<>>

\* C7: with a custom policy whose required_domains is empty, is_conscious
\* returns True exactly when the three scalar checks pass, whatever is stored
\* for the domains and whatever min_domain_stabilization is.
C7_EmptyRequiredDomains ==
    (op = "is_conscious" /\ args # << <<>> >> /\ args[1][1].required_domains = <<>>)
    => LET t == args[1][1]
       IN outcome = IF CoherencePasses(t) /\ ModelingPasses(t) /\ MemoryPasses(t)
                    THEN "True" ELSE "False"

\* it passes although a stored domain is below min_domain_stabilization and
\* another is absent
C7_Witness ==
    /\ op = "is_conscious"
    /\ args # << <<>> >>
    /\ args[1][1].required_domains = <<>>
    /\ outcome = "True"
    /\ \E d \in DOMAIN domain_stabilization :
           domain_stabilization[d].v < args[1][1].min_domain_stabilization.v
    /\ DOMAIN domain_stabilization # Domains

\* C8: until the first update_metrics call the holder has incoherence 1.0,
\* modeling 0.0, memory 0.0 and no domains, and every is_conscious() with the
\* default policy returns False.
C8_FreshHolderFails ==
    last_scalars = <<>> =>
        /\ global_delta_c = Float(100)
        /\ recursive_modeling_score = Float(0)
        /\ memory_integrity_score = Float(0)
        /\ DOMAIN domain_stabilization = {}
        /\ DefaultCall => outcome = "False"

C8_Witness == last_scalars = <<>> /\ DefaultCall /\ outcome = "False"

\* the stored values in the order is_conscious compares them
Compared(t) ==
    <<global_delta_c, recursive_modeling_score, memory_integrity_score>>
    \o [i \in DOMAIN t.required_domains |->
            DictGet(domain_stabilization, t.required_domains[i], PyInt(0))]

\* the comparisons that end the call: a value that is no number, or a bound missed
Stops(t) ==
    {k \in DOMAIN Compared(t) :
        \/ ~IsNumber(Compared(t)[k])
        \/ CASE k = 1 -> Compared(t)[k].v > t.delta_c.v
             [] k = 2 -> Compared(t)[k].v < t.recursive_modeling.v
             [] k = 3 -> Compared(t)[k].v < t.memory_integrity.v
             [] OTHER -> Compared(t)[k].v < t.min_domain_stabilization.v}

FirstStop(t) == CHOOSE k \in Stops(t) : \A j \in Stops(t) : k <= j

\* C9 as stated: whatever values update_metrics stored, is_conscious returns a
\* boolean.
C9_NeverFails == op = "is_conscious" => outcome \in {"True", "False"}

\* C9: update_metrics stores any values without error; is_conscious then
\* returns a boolean unless the first comparison that ends the call is on a
\* stored value Python cannot order against a number, where it raises TypeError.
C9_FailsOnUnorderedValue ==
    /\ op = "update_metrics" =>
           /\ outcome = "None"
           /\ <<global_delta_c, recursive_modeling_score, memory_integrity_score>>
                  = <<args[1], args[2], args[3]>>
    /\ op = "is_conscious" =>
           LET t == PolicyOf(args[1])
           IN outcome = IF Stops(t) = {} THEN "True"
                        ELSE IF IsNumber(Compared(t)[FirstStop(t)]) THEN "False"
                        ELSE "TypeError"

\* the scalars are numbers and a required domain holds a string
C9_Witness ==
    /\ op = "is_conscious"
    /\ outcome = "TypeError"
    /\ IsNumber(global_delta_c) /\ IsNumber(recursive_modeling_score)
    /\ IsNumber(memory_integrity_score)

\* C10: the three scalars are exactly the scalar arguments of the latest
\* update_metrics call, unclamped, whatever was stored before and whatever
\* its domain_updates were.
C10_ScalarsReplaced ==
    last_scalars # <<>> =>
        <<global_delta_c, recursive_modeling_score, memory_integrity_score>> = last_scalars

\* an incoherence of 1.5 is stored as given, after an earlier update
C10_Witness ==
    /\ op = "update_metrics"
    /\ args[1] = Float(150)
    /\ global_delta_c = Float(150)
    /\ prior_verdict = "True"

====
